---- MODULE Spec2Model ----
(***************************************************************************)
(* Model of algorand_compounder: the Evaluate1D trait (finite differences, *)
(* Newton and sign-bisection extremum searches), AlgoInterestModel's       *)
(* get_ideal_reward_wait_time, the driver loop of main and                 *)
(* confirm_transaction.                                                    *)
(*                                                                         *)
(* f64 is modelled as a sign-magnitude fixed-point number with NaN and     *)
(* +/-Inf: IntLimbs limbs of LimbBits bits before the point, FracLimbs     *)
(* after it.  Results are truncated to that precision, a result too large  *)
(* for it is an infinity, and zero carries no sign.                        *)
(***************************************************************************)
EXTENDS Integers, Sequences, FiniteSets, TLC

\* ------------------------------------------------------------------ f64

LimbBits == 15
IntLimbs == 2
FracLimbs == 3

Base == 2^LimbBits
NLimb == IntLimbs + FracLimbs

\* A magnitude is a sequence of limbs, the most significant first.  The
\* operators on magnitudes take their operands by value: {e} evaluates e,
\* and CHOOSE r \in {F(x) : x \in {e}} : TRUE is F of that value.

Zeros(n) == [i \in 1..n |-> 0]

MagLess(a, b) ==
  \E i \in 1..Len(a) : a[i] < b[i] /\ \A j \in 1..(i - 1) : a[j] = b[j]

\* a + b for magnitudes of one length n: n + 1 limbs, the first the carry.
\* Limb i receives a carry when a lower limb overflows and every limb in
\* between is full.
MagAdd(a, b) ==
  LET n == Len(a)
      carry(i) == IF \E j \in (i + 1)..n :
                        /\ a[j] + b[j] >= Base
                        /\ \A k \in (i + 1)..(j - 1) : a[k] + b[k] = Base - 1
                  THEN 1 ELSE 0
  IN  [i \in 1..(n + 1) |->
         IF i = 1 THEN carry(0) ELSE (a[i - 1] + b[i - 1] + carry(i - 1)) % Base]

\* a - b for magnitudes of one length, a >= b
MagSub(a, b) ==
  LET n == Len(a)
      borrow(i) == IF \E j \in (i + 1)..n :
                         /\ a[j] < b[j]
                         /\ \A k \in (i + 1)..(j - 1) : a[k] = b[k]
                   THEN 1 ELSE 0
  IN  [i \in 1..n |-> (a[i] - b[i] - borrow(i) + Base) % Base]

\* a * d for one limb d: Len(a) + 1 limbs
MulLimb(a, d) ==
  CHOOSE r \in
    {Tail(MagAdd(lo, hi)) :
       lo \in {[i \in 1..(Len(a) + 1) |->
                  IF i = 1 THEN 0 ELSE (a[i - 1] * d) % Base]},
       hi \in {[i \in 1..(Len(a) + 1) |->
                  IF i = Len(a) + 1 THEN 0 ELSE (a[i] * d) \div Base]}} : TRUE

\* the low limbs (hi = 0) or the high limbs (hi = 1) of the products
\* a[i] * b[p - i], summed over i in 1..i
RECURSIVE Conv(_, _, _, _, _)
Conv(a, b, p, i, hi) ==
  IF i = 0 THEN 0
  ELSE (IF p - i \in 1..Len(b)
        THEN (IF hi = 1 THEN (a[i] * b[p - i]) \div Base
              ELSE (a[i] * b[p - i]) % Base)
        ELSE 0) + Conv(a, b, p, i - 1, hi)

\* the full product of two magnitudes of length n: 2 * n limbs.  Column p
\* collects the low limbs of its products and the high limbs of the next
\* column's; what exceeds a limb is carried into column p - 1.
MagMul(a, b) ==
  CHOOSE r \in
    {Tail(MagAdd([p \in 1..(2 * Len(a)) |-> col[p] % Base],
                 [p \in 1..(2 * Len(a)) |->
                    IF p = 2 * Len(a) THEN 0 ELSE col[p + 1] \div Base])) :
       col \in {[p \in 1..(2 * Len(a)) |->
                   Conv(a, b, p, Len(a), 0) + Conv(a, b, p + 1, Len(a), 1)]}} : TRUE

TopIdx(a) == CHOOSE i \in 1..Len(a) : a[i] # 0 /\ \A j \in 1..(i - 1) : a[j] = 0

\* the power of two that brings the leading limb of a divisor to Base / 2
NormFactor(top) ==
  CHOOSE f \in {2^e : e \in 0..(LimbBits - 1)} : 2 * top * f >= Base /\ top * f < Base

\* the remainder r1 left by the estimated digit q, with the digit raised
\* until the remainder is below den
RECURSIVE DivCorrect(_, _, _)
DivCorrect(r1, den, q) ==
  IF MagLess(r1, den) THEN [q |-> q, r |-> r1]
  ELSE CHOOSE res \in {DivCorrect(r2, den, q + 1) : r2 \in {MagSub(r1, den)}} : TRUE

DivExact(r, den, q) ==
  CHOOSE res \in
    {DivCorrect(r1, den, q) :
       r1 \in {MagSub(r, m) : m \in {Tail(MulLimb(den, q))}}} : TRUE

\* one digit of long division: r < den * Base, den has a leading zero limb
\* and its leading non-zero limb is at least Base / 2.  The digit is
\* estimated from the leading limbs, from below, and then made exact.
DivDigit(r, den) ==
  IF MagLess(r, den) THEN [q |-> 0, r |-> r]
  ELSE LET j   == TopIdx(den)
           est == (r[j - 1] * Base + r[j]) \div (den[j] + 1)
       IN  DivExact(r, den, IF est >= Base THEN Base - 1 ELSE est)

\* long division of num by den: the quotient and remainder after one more
\* limb of num
DivStep(prev, limb, den) ==
  CHOOSE res \in {[q |-> Append(prev.q, d.q), r |-> d.r] :
                    d \in {DivDigit(r, den) : r \in {Tail(prev.r) \o <<limb>>}}} : TRUE

\* ... and after the first k limbs of num
RECURSIVE DivLimbs(_, _, _)
DivLimbs(num, den, k) ==
  IF k = 0 THEN [q |-> <<>>, r |-> Zeros(Len(den))]
  ELSE CHOOSE res \in {DivStep(prev, num[k], den) :
                         prev \in {DivLimbs(num, den, k - 1)}} : TRUE

\* a / b for magnitudes, b # 0: NLimb + FracLimbs + 1 quotient limbs
MagDiv(a, b) ==
  CHOOSE q \in
    {DivLimbs(num, den, NLimb + FracLimbs + 1).q :
       num \in {MulLimb(a \o Zeros(FracLimbs), f) : f \in {NormFactor(b[TopIdx(b)])}},
       den \in {MulLimb(b, f) : f \in {NormFactor(b[TopIdx(b)])}}} : TRUE

NaN == [k |-> "nan", s |-> 1, m |-> Zeros(NLimb)]
Inf(s) == [k |-> "inf", s |-> s, m |-> Zeros(NLimb)]
Fin(s, m) == [k |-> "fin", s |-> IF m = Zeros(NLimb) THEN 1 ELSE s, m |-> m]
Zero == Fin(1, Zeros(NLimb))

IsNaN(a) == a.k = "nan"
IsZero(a) == a = Zero

RECURSIVE Digits(_, _)
Digits(n, i) ==
  IF i = 0 THEN <<>> ELSE Digits(n \div Base, i - 1) \o <<n % Base>>

RECURSIVE DivPow(_, _)
DivPow(n, i) == IF i = 0 THEN n ELSE DivPow(n \div Base, i - 1)

\* an integer literal as f64
FromInt(n) ==
  LET a == IF n < 0 THEN -n ELSE n
      s == IF n < 0 THEN -1 ELSE 1
  IN  IF DivPow(a, IntLimbs) # 0 THEN Inf(s)
      ELSE Fin(s, Digits(a, IntLimbs) \o Zeros(FracLimbs))

NegV(a) == IF a.k = "nan" \/ a = Zero THEN a ELSE [a EXCEPT !.s = -a.s]

AddV(a, b) ==
  IF a.k = "nan" \/ b.k = "nan" THEN NaN
  ELSE IF a.k = "inf" THEN (IF b.k = "inf" /\ b.s # a.s THEN NaN ELSE a)
  ELSE IF b.k = "inf" THEN b
  ELSE IF a.s = b.s
       THEN CHOOSE v \in {IF r[1] # 0 THEN Inf(a.s) ELSE Fin(a.s, Tail(r)) :
                             r \in {MagAdd(x, y) : x \in {a.m}, y \in {b.m}}} : TRUE
  ELSE IF MagLess(a.m, b.m)
       THEN CHOOSE v \in {Fin(b.s, MagSub(y, x)) : x \in {a.m}, y \in {b.m}} : TRUE
  ELSE CHOOSE v \in {Fin(a.s, MagSub(x, y)) : x \in {a.m}, y \in {b.m}} : TRUE

MulV(a, b) ==
  IF a.k = "nan" \/ b.k = "nan" THEN NaN
  ELSE IF a.k = "inf" \/ b.k = "inf"
       THEN (IF a = Zero \/ b = Zero THEN NaN ELSE Inf(a.s * b.s))
  ELSE CHOOSE v \in
         {IF SubSeq(p, 1, IntLimbs) # Zeros(IntLimbs) THEN Inf(a.s * b.s)
          ELSE Fin(a.s * b.s, SubSeq(p, IntLimbs + 1, IntLimbs + NLimb)) :
            p \in {MagMul(x, y) : x \in {a.m}, y \in {b.m}}} : TRUE

DivV(a, b) ==
  IF a.k = "nan" \/ b.k = "nan" THEN NaN
  ELSE IF a.k = "inf" THEN (IF b.k = "inf" THEN NaN ELSE Inf(a.s * b.s))
  ELSE IF b.k = "inf" THEN Zero
  ELSE IF b = Zero THEN (IF a = Zero THEN NaN ELSE Inf(a.s))
  ELSE CHOOSE v \in
         {IF SubSeq(q, 1, FracLimbs + 1) # Zeros(FracLimbs + 1)
          THEN Inf(a.s * b.s)
          ELSE Fin(a.s * b.s, SubSeq(q, FracLimbs + 2, FracLimbs + 1 + NLimb)) :
            q \in {MagDiv(x, y) : x \in {a.m}, y \in {b.m}}} : TRUE

LtV(a, b) ==
  /\ a.k # "nan" /\ b.k # "nan" /\ a # b
  /\ IF a.s # b.s THEN a.s < b.s
     ELSE IF a.s = 1
          THEN a.k # "inf" /\ (b.k = "inf" \/ MagLess(a.m, b.m))
          ELSE b.k # "inf" /\ (a.k = "inf" \/ MagLess(b.m, a.m))

\* -a
FNeg(a) == CHOOSE r \in {NegV(x) : x \in {a}} : TRUE

\* a.abs()
FAbs(a) ==
  CHOOSE r \in {IF x.k = "nan" THEN x ELSE [x EXCEPT !.s = 1] : x \in {a}} : TRUE

\* a + b
FAdd(a, b) == CHOOSE r \in {AddV(x, y) : x \in {a}, y \in {b}} : TRUE

\* a - b
FSub(a, b) == CHOOSE r \in {AddV(x, NegV(y)) : x \in {a}, y \in {b}} : TRUE

\* a * b
FMul(a, b) == CHOOSE r \in {MulV(x, y) : x \in {a}, y \in {b}} : TRUE

\* a / b
FDiv(a, b) == CHOOSE r \in {DivV(x, y) : x \in {a}, y \in {b}} : TRUE

\* a < b; false when either is NaN
FLt(a, b) == \E x \in {a}, y \in {b} : LtV(x, y)

\* a > b
FGt(a, b) == FLt(b, a)

\* Option<f64>
None == [some |-> FALSE]
Some(v) == [some |-> TRUE, v |-> v]

\* the literals of the source
Half == FDiv(FromInt(1), FromInt(2))
Two == FromInt(2)

\* ------------------------------------------------- evaluable functions

\* Function1DAnalytic::new: a formula paired with its coefficients
Function1DAnalytic(func, coefs) == [func |-> func, coefs |-> coefs]

\* AlgoInterestModel::projected_wallet_price.  The closed form is built on
\* powf, which has no counterpart over this number format; the function is
\* represented by the curve it traces over collections_per_year, which the
\* coefficient set selects: a single interior maximum at coefs.c ("peak",
\* the compounding gain against the fees), a single minimum ("valley"),
\* monotone ("rising", "falling": no fees, or fees that dominate), constant
\* ("flat": nothing to compound and nothing to pay) and NaN ("nan": g = 1,
\* the division of zero by zero).
projected_wallet_price(collections_per_year, coefs) ==
  CHOOSE v \in
    {CASE coefs.shape = "peak"    -> FNeg(FAbs(d))
       [] coefs.shape = "valley"  -> FAbs(d)
       [] coefs.shape = "dome"    -> FNeg(FMul(d, d))
       [] coefs.shape = "rising"  -> d
       [] coefs.shape = "falling" -> FNeg(d)
       [] coefs.shape = "flat"    -> coefs.c
       [] coefs.shape = "nan"     -> NaN :
       d \in {FSub(collections_per_year, coefs.c)}} : TRUE

\* the formulas FuncType ranges over: the wallet's, and the formulas of the
\* tests (f(x) = x, f(x) = -(x - 3)^2, ...)
Apply(func, x, coefs) ==
  CASE func = "projected_wallet_price" -> projected_wallet_price(x, coefs)
    [] func = "cubic" ->
         CHOOSE v \in {FSub(FMul(FMul(d, d), d), FMul(FromInt(3), d)) :
                         d \in {FSub(x, coefs.c)}} : TRUE
    [] func = "recip" -> FDiv(FromInt(1), FSub(x, coefs.c))

\* Evaluate1D::eval
eval(self, x) == Apply(self.func, x, self.coefs)

first_derivative(self, x, delta) ==
  FDiv(FSub(eval(self, FAdd(x, delta)), eval(self, FSub(x, delta))),
       FMul(Two, delta))

second_derivative(self, x, delta) ==
  FDiv(FAdd(FSub(eval(self, FAdd(x, delta)), FMul(Two, eval(self, x))),
            eval(self, FSub(x, delta))),
       FMul(delta, delta))

loop_continues_inclusive(i, n) == i <= n

\* for _ in 0..max_iters: whether pass number i + 1 is entered
loop_continues(i, n) == i < n

\* one update of the Newton loop: x0 - f'(x0) / f''(x0)
newton_update(self, x, delta) ==
  FSub(x, FDiv(first_derivative(self, x, delta),
               second_derivative(self, x, delta)))

newton_converged_signed(self, x, delta, epsilon) ==
  FLt(first_derivative(self, x, delta), epsilon)

\* the test after the update: |f'(x0)| < epsilon
newton_converged(self, x, delta, epsilon) ==
  FLt(FAbs(first_derivative(self, x, delta)), epsilon)

\* (u - l) * 0.5 + l
Mid(l, u) == FAdd(FMul(FSub(u, l), Half), l)

\* the flag fx > 0.
IsPos(fx) == FGt(fx, Zero)

bisection_branch_unchecked(is_fl_pos, is_fu_pos, is_fm_pos, fm_small) ==
  IF fm_small THEN "converged"
  ELSE IF is_fm_pos # is_fu_pos THEN "upper_half"
  ELSE "lower_half"

bisection_branch_inverted(is_fl_pos, is_fu_pos, is_fm_pos, fm_small) ==
  IF is_fl_pos = is_fu_pos THEN "same_ends"
  ELSE IF fm_small THEN "converged"
  ELSE IF is_fm_pos # is_fu_pos THEN "upper_half"
  ELSE IF is_fl_pos = is_fm_pos THEN "lower_half"
  ELSE "no_half"

\* the if / else-if chain of one bisection pass, on the three flags and
\* |fm| < epsilon
bisection_branch(is_fl_pos, is_fu_pos, is_fm_pos, fm_small) ==
  IF is_fl_pos = is_fu_pos THEN "same_ends"
  ELSE IF fm_small THEN "converged"
  ELSE IF is_fm_pos # is_fu_pos THEN "upper_half"
  ELSE IF is_fl_pos # is_fm_pos THEN "lower_half"
  ELSE "no_half"

narrow_swapped(b, rng, mid) ==
  IF b = "upper_half" THEN <<rng[1], mid>>
  ELSE IF b = "lower_half" THEN <<mid, rng[2]>>
  ELSE rng

\* the bracket after a pass that took branch b: range = (mid, u),
\* range = (l, mid), or range as it was
narrow(b, rng, mid) ==
  IF b = "upper_half" THEN <<mid, rng[2]>>
  ELSE IF b = "lower_half" THEN <<rng[1], mid>>
  ELSE rng

\* what a pass that took branch b leaves: whether it returns, the value it
\* returns, and the bracket
bisection_outcome(b, rng, mid, fl_pos, fm_pos, fu_pos) ==
  [branch  |-> b,
   returns |-> b \in {"same_ends", "converged", "no_half"},
   ret     |-> IF b = "converged" THEN Some(mid) ELSE None,
   range   |-> narrow(b, rng, mid),
   flags   |-> <<fl_pos, fm_pos, fu_pos>>]

\* the pass on the three derivative samples fl, fm, fu
bisection_decide(rng, mid, fl, fm, fu, epsilon) ==
  CHOOSE p \in
    {bisection_outcome(b, rng, mid, IsPos(fl), IsPos(fm), IsPos(fu)) :
       b \in {bisection_branch(IsPos(fl), IsPos(fu), IsPos(fm),
                               FLt(FAbs(fm), epsilon))}} : TRUE

\* the pass with the midpoint mid: the derivative is sampled at l, mid, u
bisection_sample(self, rng, mid, delta, epsilon) ==
  CHOOSE p \in
    {bisection_decide(rng, mid, fl, fm, fu, epsilon) :
       fl \in {first_derivative(self, rng[1], delta)},
       fm \in {first_derivative(self, mid, delta)},
       fu \in {first_derivative(self, rng[2], delta)}} : TRUE

\* one pass of the bisection loop
bisection_pass(self, rng, delta, epsilon) ==
  CHOOSE p \in {bisection_sample(self, rng, mid, delta, epsilon) :
                  mid \in {Mid(rng[1], rng[2])}} : TRUE

bisection_exhausted_none(rng) == None

\* the value after the loop: Some((u - l) * 0.5 + l)
bisection_exhausted(rng) == Some(Mid(rng[1], rng[2]))

\* ---------------------------------------------------- the wait time

\* the literals of get_ideal_reward_wait_time
WaitIters == 64
WaitBracket == <<FromInt(1), FromInt(1000000000)>>
WaitDelta == FDiv(FromInt(1), FromInt(10000))
WaitEpsilon == FDiv(FromInt(1), FromInt(10000000))

wait_seconds_product(t) ==
  FMul(FMul(FMul(FromInt(365), t), FromInt(24)), FromInt(3600))

\* |t| (365.0 / t) * 24.0 * 3600.
wait_seconds(t) ==
  FMul(FMul(FDiv(FromInt(365), t), FromInt(24)), FromInt(3600))

\* .map(...) on the Option the bisection returned
wait_result(r) == IF r.some THEN Some(wait_seconds(r.v)) ELSE None

delay_of_hour(w) == IF w.some THEN w.v ELSE FromInt(3600)

\* match get_ideal_reward_wait_time() { Some(s) => s, None => 3600. * 24. }
delay_of(w) == IF w.some THEN w.v ELSE FMul(FromInt(3600), FromInt(24))

\* the largest r with r * r <= n
Isqrt(n) == CHOOSE r \in 0..n : r * r <= n /\ n < (r + 1) * (r + 1)

\* CompoundModelCoefs::new(1., 0.069, 0.001, balance) as the curve
\* projected_wallet_price traces for it: the price peaks where a further
\* collection costs more in fees than it gains, near 1.6 * sqrt(balance)
\* collections per year; with nothing to compound the peak is at 0 and only
\* the fees remain
CompoundModelCoefs(balance) ==
  [shape |-> "peak", c |-> FDiv(FromInt(16 * Isqrt(balance)), FromInt(10))]

\* AlgoInterestModel::new
AlgoInterestModel(coefs) == Function1DAnalytic("projected_wallet_price", coefs)

\* ------------------------------------------------------ confirmation

\* the rounds confirm_transaction is given by main
ConfirmRounds == 10

confirm_continues_inclusive(cur, start, tmo) == cur <= start + tmo

\* while current_round < start_round + timeout
confirm_continues(cur, start, tmo) == cur < start + tmo

\* confirmed_round.is_some() && confirmed_round.unwrap() > 0
is_confirmed(info) == info.round.some /\ info.round.v > 0

\* ---------------------------------------------------------------- state

VARIABLES
  self,        \* the evaluable function a search runs on
  alg,         \* "newton", "bisection", or "none" when no search was called
  x0,          \* search_extrema_newton's mut x0
  range,       \* search_extrema_bisection's mut range
  max_iters, delta, epsilon,
  iters,       \* loop passes entered so far
  spc,         \* "idle", "loop" (in the for loop) or "done" (returned)
  ret,         \* the Option returned, once spc = "done"
  branch,      \* the branch the last bisection pass took, "exhausted"
               \* once the loop ran out
  flags,       \* is_fl_pos, is_fm_pos, is_fu_pos of the last bisection pass
  samples,     \* derivative evaluations made so far
  hist,        \* the values x0 (the brackets range) has held, oldest first
  wpc,         \* get_ideal_reward_wait_time: "none", "called", "returned"
  wret,        \* the Option it returned
  mpc,         \* main: "none", "top" (of the loop), "wait", "confirm", "exit"
  balance,     \* main's balance, in whole algos
  delay,       \* main's delay
  sleeps,      \* the durations main has slept, oldest first
  auto_payment_count,
  cycle,       \* cycles of main's loop begun
  cpc,         \* confirm_transaction: "none", "called", "loop", "done"
  timeout, start_round, current_round,
  polls,       \* pending-transaction polls answered so far
  last_info,   \* the answer to the last poll
  cres         \* what confirm_transaction returned

searchVars == <<self, alg, x0, range, max_iters, delta, epsilon, iters, spc,
                ret, branch, flags, samples, hist>>
waitVars == <<wpc, wret>>
mainVars == <<mpc, balance, delay, sleeps, auto_payment_count, cycle>>
confirmVars == <<cpc, timeout, start_round, current_round, polls, last_info,
                 cres>>

vars == <<searchVars, waitVars, mainVars, confirmVars>>

\* ------------------------------------------------------------- bounds

MaxIters == 3
MaxTimeout == 3
MaxRound == 2
MaxCycles == 2

Centre == FromInt(3)

Shapes == {"peak", "valley", "dome", "rising", "falling", "flat", "nan"}

\* the functions the searches are run on
TestFns ==
  {Function1DAnalytic("projected_wallet_price", [shape |-> sh, c |-> Centre])
     : sh \in Shapes}
  \cup {Function1DAnalytic(fn, [c |-> Centre]) : fn \in {"cubic", "recip"}}

Points == {FromInt(0), FromInt(4), FromInt(6)}
Brackets ==
  {<<FromInt(0), FromInt(6)>>, <<FromInt(0), FromInt(4)>>,
   <<FromInt(1), FromInt(4)>>, <<FromInt(4), FromInt(6)>>,
   <<FromInt(6), FromInt(0)>>, <<FromInt(1), FromInt(1)>>}
Deltas == {FromInt(1), FDiv(FromInt(1), FromInt(4)), Zero}
Epsilons == {FDiv(FromInt(1), FromInt(1000)), Two}

\* the least number above 1, and the first midpoint of the wait bracket
OnePlus == Fin(1, [i \in 1..NLimb |-> IF i \in {IntLimbs, NLimb} THEN 1 ELSE 0])
FirstMid == FDiv(FromInt(1000000001), Two)

\* the coefficient sets get_ideal_reward_wait_time is run on
WaitCoefs ==
  {[shape |-> sh, c |-> c] :
     sh \in {"peak", "valley", "rising", "falling", "flat", "nan"},
     c \in {OnePlus, FromInt(1597), FirstMid, FromInt(999999999)}}

\* account amounts, in microalgos
Amounts == {0, 100000000, 2000000000}

\* what a call of the client returns: the answer, or an error
Err == [ok |-> FALSE]
Ok(v) == [ok |-> TRUE, v |-> v]

NoInfo == [round |-> None, pool_error |-> ""]

\* what a poll of the pending transaction can report
PendingInfos ==
  {[round |-> r, pool_error |-> e] :
     r \in {None, Some(0), Some(7)}, e \in {"", "overspend"}}

\* ------------------------------------------------------- idle parts

NoFlags == <<FALSE, FALSE, FALSE>>

\* the fields of a search at its call
NewtonCall(f, x, n, d, e) ==
  [self |-> f, alg |-> "newton", x0 |-> x, range |-> <<Zero, Zero>>,
   max_iters |-> n, delta |-> d, epsilon |-> e, hist |-> <<x>>]

BisectionCall(f, r, n, d, e) ==
  [self |-> f, alg |-> "bisection", x0 |-> Zero, range |-> r,
   max_iters |-> n, delta |-> d, epsilon |-> e, hist |-> <<r>>]

NoCall ==
  [self |-> Function1DAnalytic("cubic", [c |-> Zero]), alg |-> "none",
   x0 |-> Zero, range |-> <<Zero, Zero>>, max_iters |-> 0, delta |-> Zero,
   epsilon |-> Zero, hist |-> <<>>]

SearchAt(s) ==
  /\ self = s.self /\ alg = s.alg /\ x0 = s.x0 /\ range = s.range
  /\ max_iters = s.max_iters /\ delta = s.delta /\ epsilon = s.epsilon
  /\ iters = 0 /\ spc = (IF s.alg = "none" THEN "idle" ELSE "loop")
  /\ ret = None /\ branch = "none" /\ flags = NoFlags
  /\ samples = 0 /\ hist = s.hist

StartSearch(s) ==
  /\ self' = s.self /\ alg' = s.alg /\ x0' = s.x0 /\ range' = s.range
  /\ max_iters' = s.max_iters /\ delta' = s.delta /\ epsilon' = s.epsilon
  /\ iters' = 0 /\ spc' = "loop"
  /\ ret' = None /\ branch' = "none" /\ flags' = NoFlags
  /\ samples' = 0 /\ hist' = s.hist

WaitIdle == wpc = "none" /\ wret = None

MainIdle ==
  /\ mpc = "none" /\ balance = 0 /\ delay = Zero /\ sleeps = <<>>
  /\ auto_payment_count = 0 /\ cycle = 0

\* confirm_transaction has returned to main and its locals are gone
ConfirmReturned ==
  /\ cpc' = "none" /\ timeout' = 0 /\ start_round' = 0 /\ current_round' = 0
  /\ polls' = 0 /\ last_info' = NoInfo /\ cres' = "none"

ConfirmIdle ==
  /\ cpc = "none" /\ timeout = 0 /\ start_round = 0 /\ current_round = 0
  /\ polls = 0 /\ last_info = NoInfo /\ cres = "none"

\* ------------------------------------------------- the search routines

\* one pass of the for loop of search_extrema_newton
NewtonPass ==
  /\ alg = "newton" /\ spc = "loop" /\ loop_continues(iters, max_iters)
  /\ \E x1 \in {newton_update(self, x0, delta)} :
       \E ok \in {newton_converged(self, x1, delta, epsilon)} :
         /\ x0' = x1
         /\ hist' = Append(hist, x1)
         /\ ret' = IF ok THEN Some(x1) ELSE None
         /\ spc' = IF ok THEN "done" ELSE "loop"
  /\ iters' = iters + 1
  /\ samples' = samples + 3
  /\ UNCHANGED <<self, alg, range, max_iters, delta, epsilon, branch, flags>>
  /\ UNCHANGED <<waitVars, mainVars, confirmVars>>

\* the loop of search_extrema_newton ran out: None
NewtonExhausted ==
  /\ alg = "newton" /\ spc = "loop" /\ ~loop_continues(iters, max_iters)
  /\ ret' = None
  /\ spc' = "done"
  /\ UNCHANGED <<self, alg, x0, range, max_iters, delta, epsilon, iters,
                 branch, flags, samples, hist>>
  /\ UNCHANGED <<waitVars, mainVars, confirmVars>>

\* one pass of the for loop of search_extrema_bisection
BisectionPass ==
  /\ alg = "bisection" /\ spc = "loop" /\ loop_continues(iters, max_iters)
  /\ \E p \in {bisection_pass(self, range, delta, epsilon)} :
       /\ branch' = p.branch
       /\ flags' = p.flags
       /\ range' = p.range
       /\ hist' = Append(hist, p.range)
       /\ ret' = p.ret
       /\ spc' = IF p.returns THEN "done" ELSE "loop"
  /\ iters' = iters + 1
  /\ samples' = samples + 3
  /\ UNCHANGED <<self, alg, x0, max_iters, delta, epsilon>>
  /\ UNCHANGED <<waitVars, mainVars, confirmVars>>

\* the loop of search_extrema_bisection ran out: the bracket's midpoint
BisectionExhausted ==
  /\ alg = "bisection" /\ spc = "loop" /\ ~loop_continues(iters, max_iters)
  /\ ret' = bisection_exhausted(range)
  /\ branch' = "exhausted"
  /\ spc' = "done"
  /\ UNCHANGED <<self, alg, x0, range, max_iters, delta, epsilon, iters,
                 flags, samples, hist>>
  /\ UNCHANGED <<waitVars, mainVars, confirmVars>>

InitSearch ==
  /\ \E f \in TestFns, n \in 0..MaxIters, d \in Deltas, e \in Epsilons :
       \E s \in {NewtonCall(f, x, n, d, e) : x \in Points}
                  \cup {BisectionCall(f, r, n, d, e) : r \in Brackets} :
         SearchAt(s)
  /\ WaitIdle /\ MainIdle /\ ConfirmIdle

NextSearch ==
  \/ NewtonPass
  \/ NewtonExhausted
  \/ BisectionPass
  \/ BisectionExhausted

SpecSearch == InitSearch /\ [][NextSearch]_vars

\* a search that can take a step takes it: the loops run without waiting
FairSearch == SpecSearch /\ WF_vars(NextSearch)

\* ---------------------------------------- get_ideal_reward_wait_time

\* the call of self.search_extrema_bisection((1.0, 1000000000.), 64, ...)
WaitCall(coefs) ==
  BisectionCall(AlgoInterestModel(coefs), WaitBracket, WaitIters, WaitDelta,
                WaitEpsilon)

\* the bisection returned: get_ideal_reward_wait_time maps and returns
WaitReturn ==
  /\ wpc = "called" /\ alg = "bisection" /\ spc = "done"
  /\ wret' = wait_result(ret)
  /\ wpc' = "returned"
  /\ UNCHANGED <<searchVars, mainVars, confirmVars>>

InitWait ==
  /\ \E coefs \in WaitCoefs : SearchAt(WaitCall(coefs))
  /\ wpc = "called" /\ wret = None
  /\ MainIdle /\ ConfirmIdle

NextWait ==
  \/ BisectionPass
  \/ BisectionExhausted
  \/ WaitReturn

SpecWait == InitWait /\ [][NextWait]_vars

\* ------------------------------------------------ confirm_transaction

\* let stat = client.status()?; start_round = stat.last_round + 1
ConfirmStart ==
  /\ cpc = "called"
  /\ \E r \in {Err} \cup {Ok([last_round |-> n]) : n \in 0..MaxRound} :
       IF ~r.ok
       THEN /\ cpc' = "done" /\ cres' = "ClientError"
            /\ UNCHANGED <<start_round, current_round>>
       ELSE /\ cpc' = "loop" /\ cres' = cres
            /\ start_round' = r.v.last_round + 1
            /\ current_round' = r.v.last_round + 1
  /\ UNCHANGED <<timeout, polls, last_info>>
  /\ UNCHANGED <<searchVars, waitVars, mainVars>>

\* one pass of the while loop: the poll, its two returns, the wait for the
\* next block
ConfirmPoll ==
  /\ cpc = "loop" /\ confirm_continues(current_round, start_round, timeout)
  /\ \E r \in {Err} \cup {Ok(i) : i \in PendingInfos}, block \in {Err, Ok(0)} :
       IF ~r.ok
       THEN /\ cpc' = "done" /\ cres' = "ClientError"
            /\ UNCHANGED <<polls, last_info, current_round>>
       ELSE /\ polls' = polls + 1
            /\ last_info' = r.v
            /\ IF is_confirmed(r.v)
               THEN cpc' = "done" /\ cres' = "Ok" /\ UNCHANGED current_round
               ELSE IF r.v.pool_error # ""
               THEN cpc' = "done" /\ cres' = "Rejected" /\ UNCHANGED current_round
               ELSE IF ~block.ok
               THEN cpc' = "done" /\ cres' = "ClientError" /\ UNCHANGED current_round
               ELSE cpc' = "loop" /\ cres' = cres /\ current_round' = current_round + 1
  /\ UNCHANGED <<timeout, start_round>>
  /\ UNCHANGED <<searchVars, waitVars, mainVars>>

\* the loop ran out: Err("Timeout exceeded")
ConfirmTimeout ==
  /\ cpc = "loop" /\ ~confirm_continues(current_round, start_round, timeout)
  /\ cpc' = "done" /\ cres' = "Timeout"
  /\ UNCHANGED <<timeout, start_round, current_round, polls, last_info>>
  /\ UNCHANGED <<searchVars, waitVars, mainVars>>

InitConfirm ==
  /\ SearchAt(NoCall) /\ WaitIdle /\ MainIdle
  /\ cpc = "called" /\ timeout \in 0..MaxTimeout
  /\ start_round = 0 /\ current_round = 0
  /\ polls = 0 /\ last_info = NoInfo /\ cres = "none"

NextConfirm ==
  \/ ConfirmStart
  \/ ConfirmPoll
  \/ ConfirmTimeout

SpecConfirm == InitConfirm /\ [][NextConfirm]_vars

\* --------------------------------------------------------------- main

\* the top of the loop to the call of get_ideal_reward_wait_time: the
\* client is asked for the parameters and the account (either may fail,
\* and ? returns from main), the balance is read, the model is built
BeginCycle ==
  /\ mpc = "top" /\ cycle < MaxCycles
  /\ \E r \in {Err} \cup {Ok([amount |-> a]) : a \in Amounts} :
       IF ~r.ok
       THEN /\ mpc' = "exit"
            /\ UNCHANGED <<balance, cycle, searchVars, waitVars>>
       ELSE /\ mpc' = "wait"
            /\ balance' = r.v.amount \div 1000000
            /\ cycle' = cycle + 1
            /\ StartSearch(WaitCall(CompoundModelCoefs(r.v.amount \div 1000000)))
            /\ wpc' = "called" /\ wret' = None
  /\ UNCHANGED <<delay, sleeps, auto_payment_count, confirmVars>>

\* the wait time is back: the delay is chosen, the transaction is signed
\* and sent (either may fail, and ? returns from main) and
\* confirm_transaction(&client, &resp, 10) is called
SendPayment ==
  /\ mpc = "wait" /\ wpc = "returned"
  /\ delay' = delay_of(wret)
  /\ \E r \in {Err, Ok(0)} :
       IF ~r.ok
       THEN mpc' = "exit" /\ UNCHANGED confirmVars
       ELSE /\ mpc' = "confirm"
            /\ cpc' = "called" /\ timeout' = ConfirmRounds
            /\ start_round' = 0 /\ current_round' = 0
            /\ polls' = 0 /\ last_info' = NoInfo /\ cres' = "none"
  /\ UNCHANGED <<balance, sleeps, auto_payment_count, cycle>>
  /\ UNCHANGED <<searchVars, waitVars>>

\* Ok(_): the thread sleeps for delay, the payment is counted
CycleOk ==
  /\ mpc = "confirm" /\ cpc = "done" /\ cres = "Ok"
  /\ sleeps' = Append(sleeps, delay)
  /\ auto_payment_count' = auto_payment_count + 1
  /\ mpc' = "top"
  /\ ConfirmReturned
  /\ UNCHANGED <<balance, delay, cycle>>
  /\ UNCHANGED <<searchVars, waitVars>>

\* Err(kind): the error is printed
CycleErr ==
  /\ mpc = "confirm" /\ cpc = "done" /\ cres # "Ok"
  /\ mpc' = "top"
  /\ ConfirmReturned
  /\ UNCHANGED <<balance, delay, sleeps, auto_payment_count, cycle>>
  /\ UNCHANGED <<searchVars, waitVars>>

InitMain ==
  /\ SearchAt(NoCall) /\ WaitIdle /\ ConfirmIdle
  /\ mpc = "top" /\ balance = 0 /\ delay = Zero /\ sleeps = <<>>
  /\ auto_payment_count = 0 /\ cycle = 0

NextMain ==
  \/ BeginCycle
  \/ BisectionPass
  \/ BisectionExhausted
  \/ WaitReturn
  \/ SendPayment
  \/ ConfirmStart
  \/ ConfirmPoll
  \/ ConfirmTimeout
  \/ CycleOk
  \/ CycleErr

SpecMain == InitMain /\ [][NextMain]_vars

\* ------------------------------------------------------------ claims

\* l + (u - l) / 2
Midpoint(rng) == FAdd(rng[1], FDiv(FSub(rng[2], rng[1]), Two))

\* the sign of a derivative sample: 1, -1 or 0
Sign(fx) == IF FGt(fx, Zero) THEN 1 ELSE IF FLt(fx, Zero) THEN -1 ELSE 0

\* the finite-difference first derivative has the same sign at both ends
\* of the bracket rng
SameSignEnds(rng) ==
  \E fl \in {first_derivative(self, rng[1], delta)},
     fu \in {first_derivative(self, rng[2], delta)} :
    ~IsNaN(fl) /\ ~IsNaN(fu) /\ Sign(fl) = Sign(fu)

\* the positivity flag of the derivative at x
FlagAt(x) == FGt(first_derivative(self, x, delta), Zero)

\* |f'(x)| < epsilon
Threshold(x) == FLt(FAbs(first_derivative(self, x, delta)), epsilon)

\* x - f'(x) / f''(x)
Updated(x) ==
  FSub(x, FDiv(first_derivative(self, x, delta),
               second_derivative(self, x, delta)))

BisectionDone == alg = "bisection" /\ spc = "done"

\* C1 as stated: when the derivative has the same sign at both ends of the
\* bracket, search_extrema_bisection returns "not found", for every
\* bracket, delta, epsilon and max_iters.
C1_SameSignNotFound ==
  (BisectionDone /\ SameSignEnds(hist[1])) => ret = None

\* C1, amended: when the derivative has the same sign at both ends of the
\* bracket and max_iters is at least 1, search_extrema_bisection returns
\* "not found", in its first pass.
C1_SameSignNotFoundAfterOnePass ==
  (BisectionDone /\ max_iters >= 1 /\ SameSignEnds(hist[1]))
    => (ret = None /\ iters = 1 /\ branch = "same_ends")

C1_Witness ==
  /\ BisectionDone /\ max_iters = MaxIters /\ delta # Zero
  /\ SameSignEnds(hist[1]) /\ ret = None

\* C2: when the bisection loop runs out after max_iters passes without an
\* early return, the value returned is present and is the midpoint
\* l + (u - l) / 2 of the final bracket; with max_iters = 0 that is the
\* midpoint of the initial bracket and no derivative was sampled.
C2_ExhaustedMidpoint ==
  (BisectionDone /\ branch = "exhausted")
    => /\ ret = Some(Midpoint(range))
       /\ iters = max_iters
       /\ (max_iters = 0 => (samples = 0 /\ range = hist[1]))

C2_Witness ==
  /\ BisectionDone /\ branch = "exhausted" /\ max_iters > 0
  /\ range # hist[1] /\ ret = Some(Midpoint(range))

\* C3: search_extrema_newton returns a present value exactly when one of
\* the first max_iters updates x <- x - f'(x) / f''(x) gives an iterate
\* with |f'(x)| < epsilon, and the value is the first such iterate;
\* otherwise (also with max_iters = 0) it returns "not found".
C3_NewtonFirstIterate ==
  (alg = "newton" /\ spc = "done")
    => /\ Len(hist) <= max_iters + 1
       /\ \A i \in 2..Len(hist) : hist[i] = Updated(hist[i - 1])
       /\ IF ret.some
          THEN /\ Len(hist) >= 2
               /\ ret.v = hist[Len(hist)]
               /\ Threshold(hist[Len(hist)])
               /\ \A i \in 2..(Len(hist) - 1) : ~Threshold(hist[i])
          ELSE /\ Len(hist) = max_iters + 1
               /\ \A i \in 2..Len(hist) : ~Threshold(hist[i])

C3_Witness ==
  /\ alg = "newton" /\ spc = "done" /\ ret.some /\ Len(hist) >= 3
  /\ ret.v = hist[Len(hist)] /\ ~Threshold(hist[2])

\* C4: both searches enter at most max_iters loop passes and then have
\* returned, a value or "not found".
C4_Terminates ==
  /\ [](alg \in {"newton", "bisection"} => iters <= max_iters)
  /\ <>(spc = "done" /\ (ret = None \/ ret.some))

C4_Witness ==
  /\ alg = "newton" /\ spc = "done" /\ max_iters = MaxIters
  /\ iters = max_iters /\ ret = None

\* C5: get_ideal_reward_wait_time runs the bisection over (1, 1000000000)
\* with 64 passes; it returns "not found" exactly when the bisection does,
\* and otherwise (365 / t) * 24 * 3600 for the bisection's t, a number of
\* seconds above 0 and below 31,536,000.
C5_WaitTime ==
  wpc = "returned"
    => /\ hist[1] = <<FromInt(1), FromInt(1000000000)>> /\ max_iters = 64
       /\ wret.some = ret.some
       /\ wret.some =>
            /\ wret.v = FMul(FMul(FDiv(FromInt(365), ret.v), FromInt(24)),
                             FromInt(3600))
            /\ FGt(wret.v, Zero)
            /\ FLt(wret.v, FromInt(31536000))

C5_Witness ==
  /\ wpc = "returned" /\ wret.some /\ branch = "exhausted"
  /\ FGt(wret.v, FromInt(31535999))

\* C6: whenever main sleeps, the duration is the value
\* get_ideal_reward_wait_time returned in that cycle, or 86400 seconds when
\* it returned "not found".
C6_SleepDelay ==
  [][sleeps' # sleeps
       => sleeps' = Append(sleeps, IF wret.some THEN wret.v
                                   ELSE FromInt(86400))]_vars

C6_Witness ==
  /\ mpc = "top" /\ ~wret.some /\ sleeps = <<FromInt(86400)>>

\* C7 as stated: in every cycle main sleeps for the computed delay after
\* confirm_transaction has returned and before the next cycle starts,
\* whatever confirm_transaction returned.
C7_SleepsEveryCycle ==
  [][(mpc = "confirm" /\ mpc' = "top")
       => sleeps' = Append(sleeps, delay)]_vars

\* C8: every narrowing step of the bisection replaces the bracket by one of
\* its halves, the flags at l and u differ at the start of every pass after
\* the first, and "not found" is returned only in the first pass.
C8_NarrowKeepsMismatch ==
  alg = "bisection"
    => /\ (spc = "loop" /\ iters >= 1)
            => FlagAt(range[1]) # FlagAt(range[2])
       /\ branch \in {"upper_half", "lower_half"}
            => \E prev \in {hist[Len(hist) - 1]} :
                 range \in {<<Midpoint(prev), prev[2]>>,
                            <<prev[1], Midpoint(prev)>>}
       /\ (spc = "done" /\ ret = None) => iters = 1

C8_Witness ==
  /\ alg = "bisection" /\ spc = "loop" /\ iters >= 2
  /\ branch = "lower_half" /\ FlagAt(range[1]) # FlagAt(range[2])

\* C9: in a pass of the bisection where the flags at l and u differ,
\* exactly one of the halves (mid, u) and (l, mid) has differing flags, and
\* the last branch, for neither half, is never taken.
C9_ExactlyOneHalf ==
  (alg = "bisection" /\ iters >= 1)
    => /\ branch # "no_half"
       /\ \E prev \in {hist[Len(hist) - 1]} :
            flags = <<FlagAt(prev[1]), FlagAt(Midpoint(prev)), FlagAt(prev[2])>>
       /\ flags[1] # flags[3]
            => (flags[2] # flags[3]) # (flags[1] # flags[2])

C9_Witness ==
  /\ alg = "bisection" /\ iters >= 2 /\ branch = "upper_half"
  /\ flags[1] # flags[3] /\ flags[2] = flags[1]

\* C10: confirm_transaction polls at most timeout times and advances one
\* round per poll; it goes on only after a poll that is neither confirmed
\* nor rejected, returns Ok on a poll with a confirmed round above 0,
\* "Transaction Rejected" on an unconfirmed poll with a pool error, and
\* "Timeout exceeded" after timeout polls, none when timeout is 0.
C10_ConfirmPolling ==
  /\ polls <= timeout
  /\ cpc = "loop"
       => /\ current_round = start_round + polls
          /\ polls > 0 => (~is_confirmed(last_info) /\ last_info.pool_error = "")
  /\ (cpc = "done" /\ cres = "Ok")
       => (polls >= 1 /\ last_info.round.some /\ last_info.round.v > 0)
  /\ (cpc = "done" /\ cres = "Rejected")
       => /\ polls >= 1 /\ last_info.pool_error # ""
          /\ ~(last_info.round.some /\ last_info.round.v > 0)
  /\ (cpc = "done" /\ cres = "Timeout")
       => /\ polls = timeout
          /\ current_round = start_round + timeout
          /\ polls > 0 => (~is_confirmed(last_info) /\ last_info.pool_error = "")

C10_Witness ==
  /\ cpc = "done" /\ cres = "Timeout" /\ timeout = MaxTimeout
  /\ polls = MaxTimeout

====
